---- MODULE Spec2Model ----
(***************************************************************************)
(* Model of the ESP relay server.                                          *)
(*                                                                         *)
(*   - SSE channels zener, gogyo, astro (createChannel), oracle (inline    *)
(*     block with its own TTL and silent connect), as in src/server.js and *)
(*     src/unnamed/part_002; the single-channel first variant of the       *)
(*     server (src/unnamed/part_000) is the channel "legacy".              *)
(*   - WebSocket paired sessions draw and atelier (src/unnamed/part_002).  *)
(*                                                                         *)
(* JavaScript values are tagged records, so that `!symbol`, `x || d`,      *)
(* `Number(n)` and `??` are computed as the runtime computes them.         *)
(* A write to a response raises exactly when its transport is broken;      *)
(* the environment breaks transports between handlers (action Break).      *)
(***************************************************************************)
EXTENDS Integers, Sequences, FiniteSets, TLC

\* ------------------------------------------------------------------ bounds
MaxPub  == 2
MaxPing == 1
MaxMsg  == 2

\* Connections (res objects) are allocated in this order.
Handles == {1, 2}

\* WebSocket connections, allocated in this order; 0 is the null slot.
Sockets == {1, 2, 3}
Null    == 0


\* ------------------------------------------------------------- JS values
Undefined == [t |-> "undefined"]
JsNull    == [t |-> "null"]
NaN       == [t |-> "NaN"]
Num(v)    == [t |-> "number", v |-> v]
Str(s)    == [t |-> "string", s |-> s]

\* ToBoolean: undefined, null, NaN, 0 and "" are falsy.
Truthy(x) ==
  /\ x.t \notin {"undefined", "null", "NaN"}
  /\ (x.t = "number" => x.v # 0)
  /\ (x.t = "string" => x.s # "")

\* x || d
OrElse(x, d) == IF Truthy(x) THEN x ELSE d

\* Number(x) for the values request bodies carry here.
Number(x) ==
  CASE x.t = "number"    -> x
    [] x.t = "undefined" -> NaN
    [] x.t = "null"      -> Num(0)
    [] x.t = "NaN"       -> NaN
    [] x.t = "string"    -> IF x.s = "" THEN Num(0)
                            ELSE IF x.s = "7" THEN Num(7)
                            ELSE NaN

\* ------------------------------------------------------------- constants
SYMBOL_TTL == 60000
ORACLE_TTL == 10 * 60000

Channels    == {"zener", "gogyo", "oracle", "astro"}
AllChannels == Channels \cup {"legacy"}

ZENER_VALID  == {"cercle", "croix", "vagues", "carre", "etoile"}
GOGYO_VALID  == {"bois", "feu", "terre", "metal", "eau"}
ORACLE_VALID == {"bois", "feu", "terre", "metal", "eau"}
ASTRO_VALID  == {"belier", "taureau", "gemeaux", "cancer", "lion", "vierge",
                 "balance", "scorpion", "sagittaire", "capricorne", "verseau",
                 "poissons"}
LEGACY_VALID == {"cercle", "croix", "vagues", "carre", "etoile"}

validSymbols(ch) ==
  CASE ch = "zener"  -> ZENER_VALID
    [] ch = "gogyo"  -> GOGYO_VALID
    [] ch = "oracle" -> ORACLE_VALID
    [] ch = "astro"  -> ASTRO_VALID
    [] ch = "legacy" -> LEGACY_VALID

\* validSymbols.includes(symbol): strict equality against string elements.
Includes(set, x) == x.t = "string" /\ x.s \in set

\* Mutant: the guard without the membership test.
AcceptsTruthy(ch, symbol) == Truthy(symbol)

\* The guard of transmit: NOT (!symbol || !validSymbols.includes(symbol)).
Accepts(ch, symbol) == Truthy(symbol) /\ Includes(validSymbols(ch), symbol)

\* ------------------------------------------------------- request bodies
Body(symbol, n, day, token) ==
  [symbol |-> symbol, n |-> n, day |-> day, month |-> day, year |-> day,
   token |-> token]

Bodies ==
  { Body(Undefined,      Num(3),    Undefined, Undefined),
    Body(Str(""),        Undefined, Undefined, Undefined),
    Body(Str("pique"),   Num(3),    Undefined, Undefined),
    Body(Str("cercle"),  Str("x"),  Undefined, Undefined),
    Body(Str("bois"),    Undefined, Undefined, Str("tok")),
    Body(Str("lion"),    Str("7"),  Num(12),   Undefined) }

\* The TTL the spec gives each channel (the first variant has none in code).
TTL(ch) == IF ch = "oracle" THEN ORACLE_TTL ELSE SYMBOL_TTL

\* Instants of Date.now() a run visits (ms): the start, and the last instant
\* before and the instant of expiry of an event published at the start.
TimePoints(chs) == {0} \cup {TTL(ch) - 1 : ch \in chs} \cup {TTL(ch) : ch \in chs}

\* Each run addresses the channels of one scope; channels share no state.
Scopes == {{ch} : ch \in AllChannels}

\* ----------------------------------------------------------------- state
VARIABLES
  now,         \* Date.now()
  lastSymbol,  \* per channel: lastSymbol / lastOracle, JsNull when unset
  clients,     \* per channel: the Set clients / oracleClients / sseClients
  conn,        \* per handle: "idle", "open" (req not closed yet), "closed"
  chanOf,      \* per handle: the channel whose stream handler took it
  hb,          \* handles whose setInterval heartbeat is active
  broken,      \* open handles whose transport raises on write
  recv,        \* per handle: data frames written to it since it opened
  pings,       \* per handle: heartbeat frames written to it since it opened
  failed,      \* history: open handles a write to which has raised, and
               \* closed handles that were out of the set when they closed
  published,   \* history: accepted publishes <<channel, event>>, in order
  joined,      \* history: Len(published) when the open handle subscribed
  res,         \* the HTTP reply of the handler that ran last, if it sent one
  scope,       \* the channels that get traffic in this run
  slots,       \* drawSpectateur, drawMagicien, atelierSpectateur, atelierMagicien
  readyState,  \* per socket: 0 before its connection event, then 1, 2, 3
  wsRole,      \* per socket: the role and canal of its URL
  sent,        \* per socket: the texts the server sent to it, in order
  pushes,      \* the images handed to the Pushover request, in order
  posted,      \* history: how many messages the sockets have emitted
  pending,     \* how many Pushover requests have no outcome yet
  logged,      \* the console.error line of the handler that ran last, or ""
  credentials  \* PUSHOVER_TOKEN and PUSHOVER_USER

sseVars == <<now, lastSymbol, clients, conn, chanOf, hb, broken, recv, pings,
             failed, published, joined, res, scope>>
wsVars  == <<slots, readyState, wsRole, sent, pushes, pending, posted, logged,
             credentials>>
vars    == <<sseVars, wsVars>>

\* res after a handler that sends no HTTP reply (timer, close, open stream).
NoResponse == [status |-> 0]

InitSse ==
  /\ now = 0
  /\ lastSymbol = [ch \in AllChannels |-> JsNull]
  /\ clients = [ch \in AllChannels |-> {}]
  /\ conn = [h \in Handles |-> "idle"]
  /\ chanOf = [h \in Handles |-> "none"]
  /\ hb = {}
  /\ broken = {}
  /\ recv = [h \in Handles |-> <<>>]
  /\ pings = [h \in Handles |-> 0]
  /\ failed = {}
  /\ published = <<>>
  /\ joined = [h \in Handles |-> 0]
  /\ res = NoResponse

InitWs ==
  /\ slots = [drawSpectateur |-> Null, drawMagicien |-> Null,
              atelierSpectateur |-> Null, atelierMagicien |-> Null]
  /\ readyState = [w \in Sockets |-> 0]
  /\ wsRole = [w \in Sockets |-> [role |-> "", canal |-> ""]]
  /\ sent = [w \in Sockets |-> <<>>]
  /\ pushes = <<>>
  /\ posted = 0
  /\ pending = 0
  /\ logged = ""

\* The SSE runs: one channel in scope, no Pushover credentials in the
\* environment (process.env.PUSHOVER_TOKEN || '').
Init ==
  /\ InitSse
  /\ scope \in Scopes
  /\ InitWs
  /\ credentials = [token |-> "", user |-> ""]

\* ---------------------------------------------------------------- events
\* The object stored by transmit.
MakeEvent(ch, b, t) ==
  CASE ch \in {"zener", "gogyo", "astro"} ->
         [symbol |-> b.symbol, n |-> OrElse(Number(b.n), Num(0)),
          timestamp |-> t,
          day |-> OrElse(b.day, JsNull), month |-> OrElse(b.month, JsNull),
          year |-> OrElse(b.year, JsNull)]
    [] ch = "oracle" ->
         [symbol |-> b.symbol, timestamp |-> t,
          token |-> OrElse(b.token, JsNull)]
    [] ch = "legacy" ->
         [symbol |-> b.symbol, n |-> Number(b.n), timestamp |-> t]

\* JSON.stringify of an event: a NaN member is serialised as null.
Stringify(ev) ==
  [f \in DOMAIN ev |-> IF f # "timestamp" /\ ev[f] = NaN THEN JsNull ELSE ev[f]]

\* `data: ${payload}\n\n`; via tells the catch-up write from the fan-out.
DataFrame(ev, via) == [type |-> "data", payload |-> Stringify(ev), via |-> via]

\* lastSymbol && (Date.now() - lastSymbol.timestamp) < ttl
Fresh(ch, ttl) ==
  /\ lastSymbol[ch] # JsNull
  /\ now - lastSymbol[ch].timestamp < ttl

\* ------------------------------------------------------------ transmit
\* Fan-out `for (const client of clients) try { write } catch { delete }`:
\* the clients whose write raised, and those that were written.
\* Mutant: the catch does not delete the client.
RaisedKept(ch) == {}

Raised(ch) == clients[ch] \cap broken

\* Mutant: the first raise aborts the loop (no try around the write).
DeliveredAbortOnRaise(ch) ==
  IF clients[ch] \cap broken # {} THEN {} ELSE clients[ch]

\* Mutant: the fan-out writes to the subscribers of every channel.
DeliveredEverywhere(ch) ==
  UNION {clients[c] : c \in AllChannels} \ broken

Delivered(ch) == clients[ch] \ broken

\* The reply to a rejected publish.
InvalidSymbol(ch) ==
  [status |-> 400,
   reply |-> [error |-> IF ch = "legacy" THEN "Invalide" ELSE "Symbole invalide"]]

\* The reply to an accepted publish: res.status(204).end().
Accepted == [status |-> 204]

\* POST /<ch>/transmit (createChannel.transmit, the oracle handler and the
\* first variant's POST /transmit).
Transmit(ch, b) ==
  /\ IF ~Accepts(ch, b.symbol)
     THEN /\ res' = InvalidSymbol(ch)
          /\ UNCHANGED <<lastSymbol, clients, recv, failed, published>>
     ELSE LET ev == MakeEvent(ch, b, now) IN
          /\ Len(published) < MaxPub
          /\ lastSymbol' = [lastSymbol EXCEPT ![ch] = ev]
          /\ recv' = [h \in Handles |->
                        IF h \in Delivered(ch)
                        THEN Append(recv[h], DataFrame(ev, "live"))
                        ELSE recv[h]]
          /\ clients' = [clients EXCEPT ![ch] = clients[ch] \ Raised(ch)]
          /\ failed' = failed \cup Raised(ch)
          /\ published' = Append(published, <<ch, ev>>)
          /\ res' = Accepted
  /\ UNCHANGED <<now, conn, chanOf, hb, broken, pings, joined, scope>>
  /\ UNCHANGED wsVars

\* -------------------------------------------------------------- stream
\* Mutant: the oracle stream pushes the cached symbol inside its TTL test.
CatchUpLoud(ch) ==
  IF ch = "legacy"
  THEN IF lastSymbol[ch] # JsNull
       THEN <<DataFrame(lastSymbol[ch], "catchup")>> ELSE <<>>
  ELSE IF Fresh(ch, IF ch = "oracle" THEN ORACLE_TTL ELSE SYMBOL_TTL)
       THEN <<DataFrame(lastSymbol[ch], "catchup")>> ELSE <<>>

\* Mutant: the stream handler writes the cached event twice.
CatchUpRepeated(ch) ==
  IF lastSymbol[ch] # JsNull
  THEN <<DataFrame(lastSymbol[ch], "catchup"), DataFrame(lastSymbol[ch], "catchup")>>
  ELSE <<>>

\* What the stream handler writes to the new response before it returns.
CatchUp(ch) ==
  CASE ch \in {"zener", "gogyo", "astro"} ->
         IF Fresh(ch, SYMBOL_TTL)
         THEN <<DataFrame(lastSymbol[ch], "catchup")>> ELSE <<>>
    [] ch = "oracle" -> <<>>
    [] ch = "legacy" ->
         IF lastSymbol[ch] # JsNull
         THEN <<DataFrame(lastSymbol[ch], "catchup")>> ELSE <<>>

\* The connection object the next request gets.
NextHandle ==
  CHOOSE h \in Handles :
    /\ conn[h] = "idle"
    /\ \A g \in Handles : conn[g] = "idle" => h <= g

\* GET /<ch>/stream: add to the set, catch up, start the heartbeat, arm the
\* close listener.
Stream(ch) ==
  /\ \E h \in Handles : conn[h] = "idle"
  /\ clients' = [clients EXCEPT ![ch] = clients[ch] \cup {NextHandle}]
  /\ recv' = [recv EXCEPT ![NextHandle] = CatchUp(ch)]
  /\ hb' = hb \cup {NextHandle}
  /\ conn' = [conn EXCEPT ![NextHandle] = "open"]
  /\ chanOf' = [chanOf EXCEPT ![NextHandle] = ch]
  /\ joined' = [joined EXCEPT ![NextHandle] = Len(published)]
  /\ res' = NoResponse
  /\ UNCHANGED <<now, lastSymbol, broken, pings, failed, published, scope>>
  /\ UNCHANGED wsVars

\* clearInterval(hb) in the catch of the heartbeat callback.
HbAfterRaise(h) == hb \ {h}

\* Mutant: the close listener does not clear the interval.
HbKept(h) == hb

\* clearInterval(hb) in the close listener.
HbAfterClose(h) == hb \ {h}

\* A close listener that empties the set.
ClientsCleared(h) == {}

\* clients.delete(res) in the close listener.
ClientsAfterClose(h) == clients[chanOf[h]] \ {h}

\* The setInterval callback: try { res.write(': ping') } catch { clearInterval }.
\* The run is cut where two connections would hold more than MaxPing
\* heartbeat frames between them.
Heartbeat(h) ==
  /\ h \in hb
  /\ IF h \in broken
     THEN /\ hb' = HbAfterRaise(h)
          /\ failed' = failed \cup {h}
          /\ pings' = pings
     ELSE /\ \A g \in Handles \ {h} : pings[g] + pings[h] < MaxPing
          /\ pings' = [pings EXCEPT ![h] = pings[h] + 1]
          /\ UNCHANGED <<hb, failed>>
  /\ res' = NoResponse
  /\ UNCHANGED <<now, lastSymbol, clients, conn, chanOf, broken, recv,
                 published, joined, scope>>
  /\ UNCHANGED wsVars

\* req.on('close'): clearInterval(hb); clients.delete(res). The record of
\* what the connection received while open ends here: from now on recv and
\* pings count what is written to the closed response (such a write is
\* discarded without raising).
Close(h) ==
  /\ conn[h] = "open"
  /\ hb' = HbAfterClose(h)
  /\ clients' = [clients EXCEPT ![chanOf[h]] = ClientsAfterClose(h)]
  /\ conn' = [conn EXCEPT ![h] = "closed"]
  /\ broken' = broken \ {h}
  /\ failed' = IF h \in clients[chanOf[h]] THEN failed \ {h} ELSE failed
  /\ recv' = [recv EXCEPT ![h] = <<>>]
  /\ pings' = [pings EXCEPT ![h] = 0]
  /\ joined' = [joined EXCEPT ![h] = 0]
  /\ res' = NoResponse
  /\ UNCHANGED <<now, lastSymbol, chanOf, published, scope>>
  /\ UNCHANGED wsVars

\* --------------------------------------------------------------- latest
\* The JSON body of GET /<ch>/latest.
LatestReply(ch) ==
  IF ch = "oracle"
  THEN IF Fresh(ch, ORACLE_TTL) THEN Stringify(lastSymbol[ch])
       ELSE [symbol |-> JsNull]
  ELSE IF lastSymbol[ch] # JsNull THEN Stringify(lastSymbol[ch])
       ELSE [symbol |-> JsNull, n |-> JsNull]

Latest(ch) ==
  /\ res' = [status |-> 200, reply |-> LatestReply(ch)]
  /\ UNCHANGED <<now, lastSymbol, clients, conn, chanOf, hb, broken, recv,
                 pings, failed, published, joined, scope>>
  /\ UNCHANGED wsVars

\* ---------------------------------------------------------- environment
\* The transport of an open connection dies: from now on a write to it
\* raises. Its close event comes later.
\* The run is cut where two transports would be broken at once.
Break(h) ==
  /\ conn[h] = "open"
  /\ broken = {}
  /\ broken' = broken \cup {h}
  /\ res' = NoResponse
  /\ UNCHANGED <<now, lastSymbol, clients, conn, chanOf, hb, recv, pings,
                 failed, published, joined, scope>>
  /\ UNCHANGED wsVars

\* Time passes, to the next instant of the run.
Advance(t) ==
  /\ t > now
  /\ \A u \in TimePoints(scope) : u > now => t <= u
  /\ now' = t
  /\ res' = NoResponse
  /\ UNCHANGED <<lastSymbol, clients, conn, chanOf, hb, broken, recv, pings,
                 failed, published, joined, scope>>
  /\ UNCHANGED wsVars

Next ==
  \/ \E ch \in scope, b \in Bodies : Transmit(ch, b)
  \/ \E ch \in scope : Stream(ch)
  \/ \E ch \in scope : Latest(ch)
  \/ \E h \in Handles : Heartbeat(h)
  \/ \E h \in Handles : Close(h)
  \/ \E h \in Handles : Break(h)
  \/ \E t \in TimePoints(scope) : Advance(t)

Spec == Init /\ [][Next]_vars


\* =================================================================
\*  WebSocket paired sessions (Magic Draw and Atelier)
\* =================================================================

\* JSON.stringify of the three signals.
ReadyText                 == "{\"type\":\"ready\"}"
MagicienReadyText         == "{\"type\":\"magicien_ready\"}"
SpectateurDisconnectedText == "{\"type\":\"spectateur_disconnected\"}"

\* url.searchParams.get('role') and get('canal'); JsNull when absent.
RoleParams  == {Str("spectateur"), Str("magicien"), JsNull}
CanalParams == {Str("atelier"), Str("draw"), JsNull}

\* canal === 'atelier', everything else is Magic Draw.
SessionOf(canal) == IF canal = Str("atelier") THEN "atelier" ELSE "draw"

\* The module-level variable a role of a session is kept in.
SlotOf(session, role) ==
  CASE session = "atelier" /\ role = "spectateur" -> "atelierSpectateur"
    [] session = "atelier" /\ role = "magicien"   -> "atelierMagicien"
    [] session = "draw"    /\ role = "spectateur" -> "drawSpectateur"
    [] session = "draw"    /\ role = "magicien"   -> "drawMagicien"

\* slot?.readyState === 1
IsOpen(sl, rs, name) == sl[name] # Null /\ rs[sl[name]] = 1

\* A send that writes the text to every open socket.
SendBroadcast(out, w, text) ==
  [v \in Sockets |-> IF readyState[v] = 1 \/ v = w
                     THEN Append(out[v], text) ELSE out[v]]

\* A send that writes the text twice.
SendTwice(out, w, text) == [out EXCEPT ![w] = Append(Append(@, text), text)]

\* ws.send(text) on an open socket.
Send(out, w, text) == [out EXCEPT ![w] = Append(@, text)]

\* The next socket the server accepts.
NextSocket == CHOOSE w \in Sockets :
                /\ readyState[w] = 0
                /\ \A v \in Sockets : readyState[v] = 0 => w <= v

\* The texts of the spectateur branch of the connection handler.
SentOnSpectateur(w, session) ==
  LET own == Send(sent, w, ReadyText)
      mag == SlotOf(session, "magicien")
  IN  IF IsOpen(slots, readyState, mag)
      THEN Send(own, slots[mag], ReadyText)
      ELSE own

\* The texts of the magicien branch of the connection handler.
SentOnMagicien(w, session) ==
  LET own == Send(sent, w, MagicienReadyText)
      spe == SlotOf(session, "spectateur")
  IN  IF IsOpen(slots, readyState, spe)
      THEN Send(own, w, ReadyText)
      ELSE own

\* wss.on('connection'): the socket of a request with these URL parameters.
Connection(role, canal) ==
  /\ \E w \in Sockets : readyState[w] = 0
  /\ LET w       == NextSocket
         session == SessionOf(canal)
     IN  /\ readyState' = [readyState EXCEPT ![w] = 1]
         /\ wsRole' = [wsRole EXCEPT ![w] =
                         [role  |-> IF role = JsNull THEN "" ELSE role.s,
                          canal |-> session]]
         /\ CASE role = Str("spectateur") ->
                   /\ slots' = [slots EXCEPT
                                  ![SlotOf(session, "spectateur")] = w]
                   /\ sent' = SentOnSpectateur(w, session)
              [] role = Str("magicien") ->
                   /\ slots' = [slots EXCEPT
                                  ![SlotOf(session, "magicien")] = w]
                   /\ sent' = SentOnMagicien(w, session)
              [] OTHER ->
                   UNCHANGED <<slots, sent>>
  /\ logged' = ""
  /\ UNCHANGED <<pushes, pending, posted, credentials>>
  /\ UNCHANGED sseVars

\* The texts a client sends.
StrokeText       == "{\"type\":\"stroke\",\"x\":1}"
FinalText        == "{\"type\":\"final\",\"imageData\":\"data:image/png;base64,AAAA\"}"
FinalNoImageText == "{\"type\":\"final\"}"
NullText         == "null"
MalformedText    == "{type:"
WsTexts == {StrokeText, FinalText, FinalNoImageText, NullText, MalformedText}

\* A JSON.parse that returns an empty object for a malformed text.
JsonParseLenient(text) ==
  CASE text = StrokeText ->
         [ok |-> TRUE, value |-> [type |-> Str("stroke"),
                                  imageData |-> Undefined]]
    [] text = FinalText ->
         [ok |-> TRUE, value |-> [type |-> Str("final"),
                                  imageData |-> Str("data:image/png;base64,AAAA")]]
    [] text = FinalNoImageText ->
         [ok |-> TRUE, value |-> [type |-> Str("final"),
                                  imageData |-> Undefined]]
    [] text = NullText -> [ok |-> TRUE, value |-> JsNull]
    [] OTHER -> [ok |-> TRUE, value |-> [type |-> Undefined,
                                         imageData |-> Undefined]]

\* JSON.parse(data): the value, or a SyntaxError.
JsonParse(text) ==
  CASE text = StrokeText ->
         [ok |-> TRUE, value |-> [type |-> Str("stroke"),
                                  imageData |-> Undefined]]
    [] text = FinalText ->
         [ok |-> TRUE, value |-> [type |-> Str("final"),
                                  imageData |-> Str("data:image/png;base64,AAAA")]]
    [] text = FinalNoImageText ->
         [ok |-> TRUE, value |-> [type |-> Str("final"),
                                  imageData |-> Undefined]]
    [] text = NullText -> [ok |-> TRUE, value |-> JsNull]
    [] OTHER -> [ok |-> FALSE]

\* base64Data.replace(/^data:image\/\w+;base64,/, '')
StripDataUrl(s) == IF s = "data:image/png;base64,AAAA" THEN "AAAA" ELSE s

\* process.env.PUSHOVER_TOKEN || '' and process.env.PUSHOVER_USER || ''
Credentials == {[token |-> "", user |-> ""], [token |-> "tok", user |-> ""],
                [token |-> "tok", user |-> "usr"]}

\* sendPushoverImage(base64Data): the request it writes; it throws before
\* any request when base64Data has no replace method.
PushoverRequest(base64Data) ==
  [token |-> credentials.token, user |-> credentials.user,
   attachment |-> StripDataUrl(base64Data.s)]

\* A sendPushoverImage that writes its request twice.
sendPushoverImageTwice(base64Data) ==
  IF base64Data.t = "string"
  THEN Append(Append(pushes, PushoverRequest(base64Data)),
              PushoverRequest(base64Data))
  ELSE pushes

sendPushoverImage(base64Data) ==
  IF base64Data.t = "string"
  THEN Append(pushes, PushoverRequest(base64Data))
  ELSE pushes

\* The spectateur's ws.on('message') of a session: a parse error, the
\* TypeError of msg.type on null and the throw of sendPushoverImage all end
\* in the catch, after whatever was done before them.
OnSpectateurMessage(session, text) ==
  LET parsed == JsonParse(text)
      mag    == SlotOf(session, "magicien")
  IN  IF ~parsed.ok
      THEN UNCHANGED <<sent, pushes>>
      ELSE /\ sent' = IF IsOpen(slots, readyState, mag)
                      THEN Send(sent, slots[mag], text)
                      ELSE sent
           /\ pushes' = IF /\ parsed.value # JsNull
                           /\ parsed.value.type = Str("final")
                           /\ credentials.token # ""
                           /\ credentials.user # ""
                        THEN sendPushoverImage(parsed.value.imageData)
                        ELSE pushes

\* The listener's try block threw: JSON.parse on a malformed text, msg.type
\* on null, or sendPushoverImage on a final message without image.
Thrown(text) ==
  LET parsed == JsonParse(text)
  IN  \/ ~parsed.ok
      \/ parsed.value = JsNull
      \/ /\ parsed.value.type = Str("final")
         /\ credentials.token # ""
         /\ credentials.user # ""
         /\ parsed.value.imageData.t # "string"

\* console.error of the listener's catch.
ParseErrorLine(session) ==
  IF session = "atelier" THEN "[ATELIER] Parse error" ELSE "[DRAW] Parse error"

\* Socket w emits 'message'; only a spectateur socket has a listener.
Message(w, text) ==
  /\ readyState[w] = 1
  /\ posted < MaxMsg
  /\ posted' = posted + 1
  /\ IF wsRole[w].role = "spectateur"
     THEN /\ OnSpectateurMessage(wsRole[w].canal, text)
          /\ logged' = IF Thrown(text) THEN ParseErrorLine(wsRole[w].canal)
                       ELSE ""
     ELSE /\ UNCHANGED <<sent, pushes>>
          /\ logged' = ""
  /\ pending' = pending + (Len(pushes') - Len(pushes))
  /\ UNCHANGED <<slots, readyState, wsRole, credentials>>
  /\ UNCHANGED sseVars

\* The closing handshake of socket w has begun: readyState is CLOSING.
\* The run is cut where two closing handshakes would overlap.
Closing(w) ==
  /\ readyState[w] = 1
  /\ \A v \in Sockets : readyState[v] # 2
  /\ readyState' = [readyState EXCEPT ![w] = 2]
  /\ logged' = ""
  /\ UNCHANGED <<slots, wsRole, sent, pushes, pending, posted, credentials>>
  /\ UNCHANGED sseVars

\* What the server has to do with a socket once it is closed: nothing.
Forget(f, w, v) == [f EXCEPT ![w] = v]

\* Socket w emits 'close': readyState is CLOSED and its listener runs.
WsClose(w) ==
  /\ readyState[w] \in {1, 2}
  /\ readyState' = [readyState EXCEPT ![w] = 3]
  /\ wsRole' = Forget(wsRole, w, [role |-> "", canal |-> ""])
  /\ LET session == wsRole[w].canal
     IN  CASE wsRole[w].role = "spectateur" ->
                /\ slots' = [slots EXCEPT
                               ![SlotOf(session, "spectateur")] = Null]
                /\ sent' = IF IsOpen(slots, readyState',
                                     SlotOf(session, "magicien"))
                           THEN Send(Forget(sent, w, <<>>),
                                     slots[SlotOf(session, "magicien")],
                                     SpectateurDisconnectedText)
                           ELSE Forget(sent, w, <<>>)
           [] wsRole[w].role = "magicien" ->
                /\ slots' = [slots EXCEPT
                               ![SlotOf(session, "magicien")] = Null]
                /\ sent' = Forget(sent, w, <<>>)
           [] OTHER ->
                /\ sent' = Forget(sent, w, <<>>)
                /\ UNCHANGED slots
  /\ logged' = ""
  /\ UNCHANGED <<pushes, pending, posted, credentials>>
  /\ UNCHANGED sseVars

\* The WebSocket runs: no SSE traffic, any Pushover configuration.
InitSessions ==
  /\ InitSse
  /\ scope = {}
  /\ InitWs
  /\ credentials \in Credentials

\* The request list after an error handler that sends the request again.
PushesRetried == Append(pushes, pushes[Len(pushes)])

\* The request list after reqP.on('error'): the error is logged, no more.
PushesAfterError == pushes

\* The response of api.pushover.net to a request has ended: its body is
\* written with console.log.
PushoverResponse ==
  /\ pending > 0
  /\ pending' = pending - 1
  /\ logged' = ""
  /\ UNCHANGED <<slots, readyState, wsRole, sent, pushes, posted, credentials>>
  /\ UNCHANGED sseVars

\* A request emits 'error'.
PushoverError ==
  /\ pending > 0
  /\ pending' = pending - 1
  /\ pushes' = PushesAfterError
  /\ logged' = "[PUSHOVER ERROR]"
  /\ UNCHANGED <<slots, readyState, wsRole, sent, posted, credentials>>
  /\ UNCHANGED sseVars

NextSessions ==
  \/ \E role \in RoleParams, canal \in CanalParams : Connection(role, canal)
  \/ \E w \in Sockets, text \in WsTexts : Message(w, text)
  \/ \E w \in Sockets : Closing(w)
  \/ \E w \in Sockets : WsClose(w)
  \/ PushoverResponse
  \/ PushoverError

SpecSessions == InitSessions /\ [][NextSessions]_vars

\* =================================================================
\*  Runs with two channels, or with the two sessions
\* =================================================================

\* Two channels of one server get traffic in the same run.
PairScopes == {{"zener", "gogyo"}}

\* A run has either channel traffic on a pair of channels or session
\* traffic (without Pushover credentials: no request leaves the server).
InitIsolation ==
  /\ InitSse
  /\ InitWs
  /\ credentials = [token |-> "", user |-> ""]
  /\ scope \in PairScopes \cup {{}}

\* The handlers of the channels; the channel traffic of these runs
\* happens within one instant of the clock.
NextChannels ==
  \/ \E ch \in scope, b \in Bodies : Transmit(ch, b)
  \/ \E ch \in scope : Stream(ch)
  \/ \E ch \in scope : Latest(ch)
  \/ \E h \in Handles : Heartbeat(h)
  \/ \E h \in Handles : Close(h)
  \/ \E h \in Handles : Break(h)

NextIsolation ==
  \/ scope # {} /\ NextChannels
  \/ scope = {} /\ NextSessions

SpecIsolation == InitIsolation /\ [][NextIsolation]_vars

\* =================================================================
\*  Properties of the SSE channels
\* =================================================================

\* kind is present and belongs to the channel's valid-symbol set.
KindValid(ch, symbol) == symbol.t = "string" /\ symbol.s \in validSymbols(ch)

\* h has been taken by a stream handler and is still in its channel's set.
Subscribed(h) == conn[h] # "idle" /\ h \in clients[chanOf[h]]

\* The data frame the fan-out of event ev writes.
LiveFrame(ev) == [type |-> "data", payload |-> Stringify(ev), via |-> "live"]

IsLive(f) == f.via = "live"

\* The fan-out frames h received, and the frames of the publishes accepted
\* on its channel since it subscribed.
LiveFrames(h) == SelectSeq(recv[h], IsLive)

OnChannelOf(h, i) == published[i][1] = chanOf[h]

RECURSIVE FramesFrom(_, _)
FramesFrom(h, i) ==
  IF i > Len(published) THEN <<>>
  ELSE IF OnChannelOf(h, i)
       THEN <<LiveFrame(published[i][2])>> \o FramesFrom(h, i + 1)
       ELSE FramesFrom(h, i + 1)

PublishedSince(h) == FramesFrom(h, joined[h] + 1)

IsPrefix(s, t) == Len(s) <= Len(t) /\ SubSeq(t, 1, Len(s)) = s

\* C1: a publish whose kind is absent or outside the channel's valid set is
\* rejected with the invalid-symbol error (400) and changes nothing: every
\* publish that is answered 204 carried a kind of the valid set (a publish
\* is answered 400 or 204), and a step that answers 400 leaves the cache,
\* the subscriber sets and everything written to subscribers unchanged.
C1_InvalidPublishRejected ==
  [][/\ res'.status = 204 =>
          \A ch \in scope, b \in Bodies :
            Transmit(ch, b) => KindValid(ch, b.symbol)
     /\ res'.status = 400 =>
          /\ "error" \in DOMAIN res'.reply
          /\ lastSymbol' = lastSymbol
          /\ clients' = clients
          /\ recv' = recv
          /\ pings' = pings
          /\ hb' = hb]_vars

\* A rejected publish has just been answered on a channel that has a cached
\* event and a subscriber.
C1_Witness ==
  /\ res.status = 400
  /\ \E ch \in Channels : lastSymbol[ch] # JsNull /\ clients[ch] # {}

\* C2: the fan-out frames a subscriber has received are, one copy each and in
\* publish order, the events accepted on its channel since it subscribed:
\* all of them while it is in the set (every write to it succeeded), a prefix
\* of them once a write to it failed or it disconnected.
C2_ExactlyOnceInOrder ==
  \A h \in Handles :
    conn[h] = "open" =>
      /\ IsPrefix(LiveFrames(h), PublishedSince(h))
      /\ Subscribed(h) => LiveFrames(h) = PublishedSince(h)

\* A subscriber still in the set has received two different events, and
\* another subscriber of the same channel joined between the two publishes.
C2_Witness ==
  \E h, g \in Handles :
    /\ Subscribed(h) /\ Subscribed(g) /\ chanOf[h] = chanOf[g]
    /\ Len(LiveFrames(h)) = 2
    /\ LiveFrames(h)[1] # LiveFrames(h)[2]
    /\ joined[g] = 1
    /\ Len(LiveFrames(g)) = 1

\* C3: when a subscriber's write raises during the fan-out of an accepted
\* publish, that subscriber is out of the set when the call returns, every
\* other subscriber has received the event, the cache holds the event and
\* the producer is answered 204.
C3_FailedWritePruned ==
  [][\A ch \in scope, b \in Bodies :
       (published' # published /\ clients[ch] \cap broken # {}
          /\ KindValid(ch, b.symbol) /\ Transmit(ch, b)) =>
         /\ clients'[ch] = clients[ch] \ broken
         /\ lastSymbol'[ch].symbol = b.symbol
         /\ lastSymbol'[ch].timestamp = now
         /\ \A g \in clients[ch] \ broken :
              recv'[g] = Append(recv[g], LiveFrame(lastSymbol'[ch]))
         /\ res'.status = 204]_vars

\* A publish has just pruned a subscriber whose write raised while another
\* subscriber of the channel received the event.
C3_Witness ==
  /\ res.status = 204
  /\ \E h, g \in Handles :
       /\ conn[h] = "open" /\ h \in failed /\ ~Subscribed(h)
       /\ Subscribed(g) /\ chanOf[g] = chanOf[h]
       /\ Len(recv[g]) > 0
       /\ recv[g][Len(recv[g])] = LiveFrame(lastSymbol[chanOf[g]])

\* The freshness test the spec gives every channel: a cached event exists
\* and its age is strictly less than the channel's TTL.
WithinTTL(ch) ==
  /\ lastSymbol[ch] # JsNull
  /\ now - lastSymbol[ch].timestamp < TTL(ch)

\* C4: GET /<ch>/latest returns the last accepted event if and only if its
\* age is below the channel's TTL (60 s, oracle 600 s), and the "none"
\* sentinel (symbol null) otherwise.
C4_LatestIffFresh ==
  [][\A ch \in scope \cap Channels :
       Latest(ch) =>
         IF WithinTTL(ch)
         THEN res'.reply = Stringify(lastSymbol[ch])
         ELSE res'.reply.symbol = JsNull]_vars

\* What createChannel.latest does instead: the cached event whatever its
\* age, the sentinel only before the first publish; the oracle route alone
\* applies its TTL.
C4_LatestAsCoded ==
  [][\A ch \in scope \cap Channels :
       Latest(ch) =>
         IF lastSymbol[ch] # JsNull /\ (ch = "oracle" => WithinTTL(ch))
         THEN res'.reply = Stringify(lastSymbol[ch])
         ELSE res'.reply.symbol = JsNull]_vars

\* C5: on a channel that is not silent, the stream handler writes the cached
\* event to the new subscriber, first, if and only if a cached event exists
\* and its age is below 60 s; otherwise it writes nothing at connect.
C5_CatchUpIffFresh ==
  [][\A ch \in scope \ {"oracle"} :
       Stream(ch) =>
         recv'[NextHandle] =
           IF WithinTTL(ch)
           THEN <<[type |-> "data", payload |-> Stringify(lastSymbol[ch]),
                   via |-> "catchup"]>>
           ELSE <<>>]_vars

\* The same statement for the channels built by createChannel only.
C5_CreateChannelCatchUp ==
  [][\A ch \in scope \cap {"zener", "gogyo", "astro"} :
       Stream(ch) =>
         recv'[NextHandle] =
           IF WithinTTL(ch)
           THEN <<[type |-> "data", payload |-> Stringify(lastSymbol[ch]),
                   via |-> "catchup"]>>
           ELSE <<>>]_vars

\* C6: on the oracle channel a new subscriber is written nothing at connect,
\* even when a fresh cached event exists, and an accepted publish is written
\* to every subscriber whose write succeeds, the silent newcomer included.
C6_OracleSilentConnect ==
  [][("oracle" \in scope) =>
       /\ (conn' # conn /\ Stream("oracle")) => recv'[NextHandle] = <<>>
       /\ \A b \in Bodies :
            (published' # published /\ KindValid("oracle", b.symbol)
               /\ Transmit("oracle", b)) =>
              \A h \in clients["oracle"] \ broken :
                recv'[h] = Append(recv[h], LiveFrame(lastSymbol'["oracle"]))
     ]_vars

\* An oracle subscriber connected while a fresh event was cached, received
\* nothing then, and has since received the next publish.
C6_Witness ==
  \E h \in Handles :
    /\ conn[h] = "open" /\ chanOf[h] = "oracle"
    /\ joined[h] = 1 /\ Len(published) = 2
    /\ now - published[1][2].timestamp < ORACLE_TTL
    /\ recv[h] = <<LiveFrame(published[2][2])>>

\* C7: while a subscription is alive (open, no write to it has raised) its
\* timer is running and every tick writes one heartbeat frame and leaves the
\* timer running; once the connection has closed, or its transport has
\* broken, or a write to it has raised, no further heartbeat frame is
\* written to it.
C7_HeartbeatLifetime ==
  [][\A h \in Handles :
       /\ (conn[h] = "open" /\ h \notin failed) => h \in hb
       /\ (h \notin broken /\ pings' # pings /\ Heartbeat(h)) =>
            (pings'[h] = pings[h] + 1 /\ h \in hb')
       /\ (conn[h] = "closed" \/ h \in failed \/ h \in broken) =>
            pings'[h] <= pings[h]]_vars

\* A subscriber got a heartbeat, then a heartbeat write to it raised and its
\* timer was cancelled, while another connection has closed.
C7_Witness ==
  \E h, g \in Handles :
    /\ conn[h] = "open" /\ pings[h] >= 1 /\ h \in failed /\ h \notin hb
    /\ conn[g] = "closed"

\* C8: a heartbeat timer is active only for a subscriber that is in its
\* channel's set: removal from the set never leaves the timer running.
C8_NoTimerOutsideSet == \A h \in hb : Subscribed(h)

\* C9: when a heartbeat write raises, the timer is cancelled and the
\* subscriber is no longer in its channel's set.
C9_HeartbeatFailureTearsDown ==
  [][\A h \in Handles :
       (h \in hb /\ h \in broken /\ Heartbeat(h)) =>
         (h \notin hb' /\ h \notin clients'[chanOf[h]])]_vars

\* =================================================================
\*  Properties of the paired sessions
\* =================================================================

Opposite(role) == IF role = "spectateur" THEN "magicien" ELSE "spectateur"

\* The texts socket w is sent by the step.
NewTexts(w) == SubSeq(sent'[w], Len(sent[w]) + 1, Len(sent'[w]))

Contains(seq, text) == \E i \in 1..Len(seq) : seq[i] = text

\* C10: a connect of either role sends a ready signal to the new socket
\* and, when the opposite role's slot holds an open socket, a peer-ready
\* signal to both sides: to the new socket and to the opposite socket,
\* whichever role connects second.
C10_PeerReadyBothSides ==
  [][\A role \in {"spectateur", "magicien"}, canal \in CanalParams :
       Connection(Str(role), canal) =>
         LET w    == NextSocket
             peer == SlotOf(SessionOf(canal), Opposite(role))
         IN  /\ \/ Contains(NewTexts(w), ReadyText)
                \/ Contains(NewTexts(w), MagicienReadyText)
             /\ IsOpen(slots, readyState, peer) =>
                  /\ Contains(NewTexts(w), ReadyText)
                  /\ Contains(NewTexts(slots[peer]), ReadyText)]_vars

\* What the connection handler does send: a spectateur gets "ready" and an
\* open magicien gets "ready" too; a magicien gets "magicien_ready" and,
\* when the spectateur is open, "ready" as well, and the spectateur gets
\* nothing. No other socket is sent anything.
C10_ReadyAsCoded ==
  [][\A role \in {"spectateur", "magicien"}, canal \in CanalParams :
       Connection(Str(role), canal) =>
         LET w    == NextSocket
             peer == SlotOf(SessionOf(canal), Opposite(role))
             open == IsOpen(slots, readyState, peer)
         IN  /\ role = "spectateur" => NewTexts(w) = <<ReadyText>>
             /\ role = "magicien" =>
                  NewTexts(w) = IF open THEN <<MagicienReadyText, ReadyText>>
                                ELSE <<MagicienReadyText>>
             /\ \A v \in Sockets \ {w} :
                  NewTexts(v) = IF open /\ role = "spectateur" /\ v = slots[peer]
                                THEN <<ReadyText>> ELSE <<>>]_vars

\* A magicien has connected to a session whose spectateur is open.
C10_MagicienSecond ==
  \E session \in {"draw", "atelier"} :
    /\ IsOpen(slots, readyState, SlotOf(session, "spectateur"))
    /\ IsOpen(slots, readyState, SlotOf(session, "magicien"))
    /\ slots[SlotOf(session, "spectateur")] < slots[SlotOf(session, "magicien")]
    /\ sent[slots[SlotOf(session, "spectateur")]] = <<ReadyText>>
    /\ sent[slots[SlotOf(session, "magicien")]] = <<MagicienReadyText, ReadyText>>

\* The socket held by the slot is open (the slot is Connected).
Connected(name) == slots[name] # Null /\ readyState[slots[name]] = 1

\* The texts that are signals of the relay itself.
Signals == {ReadyText, MagicienReadyText, SpectateurDisconnectedText}

\* C11: every well-formed message of a spectateur is forwarded to the
\* magicien of its session verbatim and exactly once while the magicien
\* slot is connected (so the magicien receives them in the order sent);
\* when it is not, the message is forwarded to nobody, and nothing is kept
\* for later: a step that is not a message only ever sends signals.
C11_RelayVerbatimOnce ==
  [][/\ posted' # posted =>
          \A w \in Sockets, text \in WsTexts :
            (/\ wsRole[w].role = "spectateur"
             /\ JsonParse(text).ok
             /\ Message(w, text)) =>
              LET mag == SlotOf(wsRole[w].canal, "magicien")
              IN  \A v \in Sockets :
                    NewTexts(v) = IF Connected(mag) /\ v = slots[mag]
                                  THEN <<text>> ELSE <<>>
     /\ posted' = posted =>
          \A v \in Sockets :
            \A i \in 1..Len(NewTexts(v)) : NewTexts(v)[i] \in Signals]_vars

\* A magicien has been forwarded a stroke and then a final message, in the
\* order the spectateur sent them.
C11_Witness ==
  \E m \in Sockets :
    /\ wsRole[m].role = "magicien"
    /\ sent[m] = <<MagicienReadyText, ReadyText, StrokeText, FinalText>>

\* C12: relay is bidirectional: a message of either role is forwarded
\* verbatim to the socket of the opposite role's slot whenever that slot
\* is connected; in particular a magicien's message reaches the connected
\* spectateur.
C12_RelayBothWays ==
  [][\A w \in Sockets, text \in WsTexts :
       (/\ wsRole[w].role \in {"spectateur", "magicien"}
        /\ JsonParse(text).ok
        /\ Connected(SlotOf(wsRole[w].canal, Opposite(wsRole[w].role)))
        /\ Message(w, text)) =>
         NewTexts(slots[SlotOf(wsRole[w].canal, Opposite(wsRole[w].role))])
           = <<text>>]_vars

\* What the code does with a magicien's message: no listener is registered
\* for it, so no socket is sent anything.
C12_MagicienMessageIgnored ==
  [][\A w \in Sockets, text \in WsTexts :
       (wsRole[w].role = "magicien" /\ Message(w, text)) =>
         (sent' = sent /\ pushes' = pushes /\ slots' = slots)]_vars

\* C13: for each of the two roles, the disconnect of the socket that holds
\* the role's slot empties the slot and, if the opposite role's slot is
\* connected, the opposite socket is sent a peer-disconnected signal.
C13_DisconnectSignalsPeer ==
  [][\A w \in Sockets :
       (/\ wsRole[w].role \in {"spectateur", "magicien"}
        /\ slots[SlotOf(wsRole[w].canal, wsRole[w].role)] = w
        /\ WsClose(w)) =>
         LET peer == SlotOf(wsRole[w].canal, Opposite(wsRole[w].role))
         IN  /\ slots'[SlotOf(wsRole[w].canal, wsRole[w].role)] = Null
             /\ Connected(peer) => Len(NewTexts(slots[peer])) >= 1]_vars

\* What the close listeners do: both empty their slot; only the close of a
\* spectateur sends something, "spectateur_disconnected" to the open
\* magicien; the close of a magicien sends nothing to anybody.
C13_DisconnectAsCoded ==
  [][\A w \in Sockets :
       (wsRole[w].role \in {"spectateur", "magicien"} /\ WsClose(w)) =>
         LET peer == SlotOf(wsRole[w].canal, Opposite(wsRole[w].role))
         IN  /\ slots'[SlotOf(wsRole[w].canal, wsRole[w].role)] = Null
             /\ \A v \in Sockets \ {w} :
                  NewTexts(v) = IF /\ wsRole[w].role = "spectateur"
                                   /\ Connected(peer) /\ v = slots[peer]
                                THEN <<SpectateurDisconnectedText>>
                                ELSE <<>>]_vars

SlotNames == {"drawSpectateur", "drawMagicien",
              "atelierSpectateur", "atelierMagicien"}

\* C14: after a connect the role's slot holds the new socket, and a slot
\* that holds socket h keeps holding h until h itself closes or a newer
\* connection of the same role arrives; the close of a socket that h
\* superseded does not empty the slot.
C14_LastConnectWins ==
  [][/\ \A role \in {"spectateur", "magicien"}, canal \in CanalParams :
          Connection(Str(role), canal) =>
            slots'[SlotOf(SessionOf(canal), role)] = NextSocket
     /\ \A n \in SlotNames :
          (slots[n] # Null /\ slots'[n] # slots[n]) =>
            \/ WsClose(slots[n])
            \/ slots'[n] # Null /\ readyState[slots'[n]] = 0]_vars

\* What the close listeners do: the slot of the closing socket's role is
\* emptied whoever holds it.
C14_CloseEmptiesSlotAnyway ==
  [][\A w \in Sockets :
       (wsRole[w].role \in {"spectateur", "magicien"} /\ WsClose(w)) =>
         slots' = [slots EXCEPT
                     ![SlotOf(wsRole[w].canal, wsRole[w].role)] = Null]]_vars

\* Socket w is not closed, has a paired role, and its role's slot does not
\* hold it any more.
Superseded(w) ==
  /\ readyState[w] \in {1, 2}
  /\ wsRole[w].role \in {"spectateur", "magicien"}
  /\ slots[SlotOf(wsRole[w].canal, wsRole[w].role)] # w

\* C15: a superseded socket is never sent anything again, neither a
\* relayed text nor a signal, and no handler of the relay closes it: its
\* readyState only changes by its own closing handshake and close event.
C15_SupersededGetsNothing ==
  [][\A w \in Sockets :
       Superseded(w) =>
         /\ NewTexts(w) = <<>>
         /\ readyState'[w] # readyState[w] => (Closing(w) \/ WsClose(w))
         /\ ~(Closing(w) \/ WsClose(w)) => Superseded(w)']_vars

\* A magicien was superseded; after that a spectateur connected and sent a
\* stroke, and both the signal and the stroke went to the newer magicien
\* only.
C15_Witness ==
  \E w, v \in Sockets :
    /\ Superseded(w)
    /\ wsRole[w].role = "magicien"
    /\ slots[SlotOf(wsRole[w].canal, "magicien")] = v
    /\ sent[w] = <<MagicienReadyText>>
    /\ sent[v] = <<MagicienReadyText, ReadyText, StrokeText>>

\* The message is tagged terminal: it parses to an object of type "final".
IsFinal(text) ==
  /\ JsonParse(text).ok
  /\ JsonParse(text).value # JsNull
  /\ JsonParse(text).value.type = Str("final")

\* The terminal message carries an image.
HasImage(text) == IsFinal(text) /\ JsonParse(text).value.imageData.t = "string"

\* Both Pushover credentials are set in the environment.
Configured == credentials.token # "" /\ credentials.user # ""

\* The step has written exactly one more Pushover request, for the image.
OneMorePush(artifact) ==
  /\ Len(pushes') = Len(pushes) + 1
  /\ SubSeq(pushes', 1, Len(pushes)) = pushes
  /\ pushes'[Len(pushes')].attachment = artifact
  /\ pushes'[Len(pushes')].token = credentials.token
  /\ pushes'[Len(pushes')].user = credentials.user

\* C16 as stated: every terminal message of a spectateur invokes the
\* notification sink exactly once with the message's image, besides being
\* forwarded to the connected magicien; any other message never invokes it.
C16_FinalAlwaysNotifies ==
  [][posted' # posted =>
       \A w \in Sockets, text \in WsTexts :
         (wsRole[w].role = "spectateur" /\ Message(w, text)) =>
           IF HasImage(text) THEN OneMorePush("AAAA") ELSE pushes' = pushes
    ]_vars

\* C16, amended: when both Pushover credentials are configured, every
\* terminal message of a spectateur that carries an image writes exactly
\* one Pushover request with that image, besides being forwarded to the
\* connected magicien; a message that is not terminal, a terminal message
\* without image, and any message while a credential is missing write none.
C16_FinalNotifiesWhenConfigured ==
  [][posted' # posted =>
       \A w \in Sockets, text \in WsTexts :
         (wsRole[w].role = "spectateur" /\ Message(w, text)) =>
           /\ IF Configured /\ HasImage(text)
              THEN OneMorePush("AAAA")
              ELSE pushes' = pushes
           /\ (IsFinal(text)
               /\ Connected(SlotOf(wsRole[w].canal, "magicien"))) =>
                NewTexts(slots[SlotOf(wsRole[w].canal, "magicien")])
                  = <<text>>]_vars

\* With the credentials configured, a final message with its image has been
\* forwarded to the magicien and handed to Pushover once.
C16_Witness ==
  /\ Configured
  /\ Len(pushes) = 1
  /\ pushes[1].attachment = "AAAA"
  /\ \E m \in Sockets :
       sent[m] = <<MagicienReadyText, ReadyText, FinalText>>

\* Without credentials a final message with its image was forwarded and
\* nothing was handed to Pushover.
C16_UnconfiguredWitness ==
  /\ ~Configured
  /\ pushes = <<>>
  /\ \E m \in Sockets :
       sent[m] = <<MagicienReadyText, ReadyText, FinalText>>

\* C17: a failure of the notification sink is contained and only logged.
\* When a Pushover request emits 'error', the slots, the sockets and
\* everything sent to them stay as they are (the forwarded terminal message
\* included), the error line is logged and no request is written again;
\* when sendPushoverImage throws while building the request (terminal
\* message without image), the message has been forwarded to the connected
\* magicien all the same, no request is written, the slots are unchanged
\* and the catch logs. No step other than a message writes a request.
C17_SinkFailureContained ==
  [][/\ posted' = posted =>
          /\ pushes' = pushes
          /\ PushoverError =>
               /\ slots' = slots /\ sent' = sent
               /\ readyState' = readyState /\ wsRole' = wsRole
               /\ logged' = "[PUSHOVER ERROR]"
     /\ posted' # posted =>
          \A w \in Sockets :
            (/\ wsRole[w].role = "spectateur"
             /\ Configured
             /\ Message(w, FinalNoImageText)) =>
              LET mag == SlotOf(wsRole[w].canal, "magicien")
              IN  /\ slots' = slots
                  /\ pushes' = pushes
                  /\ readyState' = readyState
                  /\ logged' \in {"[DRAW] Parse error", "[ATELIER] Parse error"}
                  /\ \A v \in Sockets :
                       NewTexts(v) = IF Connected(mag) /\ v = slots[mag]
                                     THEN <<FinalNoImageText>> ELSE <<>>]_vars

\* A final message and a final message without image, on which
\* sendPushoverImage throws, were forwarded; the one Pushover request has
\* just failed.
C17_Witness ==
  /\ Configured
  /\ Len(pushes) = 1
  /\ pending = 0
  /\ logged = "[PUSHOVER ERROR]"
  /\ \E m \in Sockets :
       /\ readyState[m] = 1
       /\ sent[m] = <<MagicienReadyText, ReadyText, FinalText,
                      FinalNoImageText>>

\* C18: a malformed text of a spectateur is dropped: it is forwarded to
\* nobody, writes no Pushover request, leaves the slots and the sockets as
\* they are and is logged by the catch; the well-formed message that
\* follows it is relayed to the connected magicien as usual.
C18_MalformedDropped ==
  [][posted' # posted =>
       \A w \in Sockets :
         /\ (wsRole[w].role = "spectateur" /\ Message(w, MalformedText)) =>
              /\ sent' = sent
              /\ pushes' = pushes /\ pending' = pending
              /\ slots' = slots
              /\ readyState' = readyState /\ wsRole' = wsRole
              /\ logged' = ParseErrorLine(wsRole[w].canal)
         /\ (/\ wsRole[w].role = "spectateur"
             /\ logged = ParseErrorLine(wsRole[w].canal)
             /\ Connected(SlotOf(wsRole[w].canal, "magicien"))
             /\ Message(w, StrokeText)) =>
              NewTexts(slots[SlotOf(wsRole[w].canal, "magicien")])
                = <<StrokeText>>]_vars

\* The magicien connected first, the spectateur second; the spectateur's
\* only message has just ended in the catch and the open magicien was
\* forwarded nothing: the message was malformed.
C18_Witness ==
  /\ readyState = <<1, 1, 0>>
  /\ wsRole[1].role = "magicien" /\ wsRole[2].role = "spectateur"
  /\ wsRole[1].canal = wsRole[2].canal
  /\ posted = 1
  /\ logged = ParseErrorLine(wsRole[2].canal)
  /\ sent[1] = <<MagicienReadyText, ReadyText>>
  /\ pushes = <<>>

\* Socket m is the magicien that connected last to the session, and it is
\* open.
NewestMagicien(session, m) ==
  /\ readyState[m] = 1
  /\ wsRole[m] = [role |-> "magicien", canal |-> session]
  /\ \A v \in Sockets :
       (/\ readyState[v] \in {1, 2}
        /\ wsRole[v] = [role |-> "magicien", canal |-> session]) => v <= m

\* C19: a session has no terminal state: after any sequence of connects and
\* disconnects, whenever a spectateur socket is open and the magicien that
\* connected last is open, the spectateur's messages are relayed to that
\* magicien.
C19_RelayAfterAnyCycles ==
  [][posted' # posted =>
       \A w, m \in Sockets :
         (/\ wsRole[w].role = "spectateur"
          /\ NewestMagicien(wsRole[w].canal, m)
          /\ Message(w, StrokeText)) =>
           NewTexts(m) = <<StrokeText>>]_vars

\* The part of C19 the code does keep: the spectateur closed and a new one
\* connected, and the stroke of the new one reached the magicien that
\* had stayed connected all along.
C19_ProducerReconnected ==
  /\ readyState = <<3, 1, 1>>
  /\ wsRole[2].role = "magicien" /\ wsRole[3].role = "spectateur"
  /\ wsRole[2].canal = wsRole[3].canal
  /\ sent[2] = <<MagicienReadyText, ReadyText, SpectateurDisconnectedText,
                 ReadyText, StrokeText>>

\* C20: unsubscribe is idempotent: the close of a connection that is
\* already out of its channel's subscriber set (pruned by a fan-out write
\* that raised) leaves every subscriber set and every cache as they are,
\* leaves the timers of the other subscribers running, writes nothing to
\* them and answers nobody.
C20_UnsubscribeIdempotent ==
  [][\A h \in Handles :
       (conn' # conn /\ ~Subscribed(h) /\ Close(h)) =>
         /\ clients' = clients
         /\ lastSymbol' = lastSymbol
         /\ hb' = hb \ {h}
         /\ \A g \in Handles \ {h} : recv'[g] = recv[g] /\ pings'[g] = pings[g]
         /\ res' = NoResponse]_vars

\* A connection closed after a fan-out write to it had raised and pruned
\* it, while another subscriber stays in the set with its timer running.
C20_Witness ==
  \E h, g \in Handles :
    /\ conn[h] = "closed" /\ h \in failed
    /\ g # h /\ conn[g] = "open" /\ Subscribed(g) /\ g \in hb
    /\ chanOf[g] = chanOf[h]

\* =================================================================
\*  Properties of the caches, of isolation and of delivery
\* =================================================================

\* The index in published of the channel's last accepted publish, 0 if none.
LastPublishOf(ch) ==
  LET on == {i \in 1..Len(published) : published[i][1] = ch}
  IN  IF on = {} THEN 0 ELSE CHOOSE i \in on : \A k \in on : k <= i

\* The cache is empty before the channel's first accepted publish and holds
\* the channel's last accepted event, of a valid kind, after it.
CacheIsLastAccepted ==
  \A ch \in AllChannels :
    IF LastPublishOf(ch) = 0
    THEN lastSymbol[ch] = JsNull
    ELSE /\ lastSymbol[ch] = published[LastPublishOf(ch)][2]
         /\ KindValid(ch, lastSymbol[ch].symbol)

\* C21: in every reachable state each channel's cache is empty (only before
\* the channel's first accepted publish) or equal to the channel's most
\* recently accepted event, whose kind is valid for the channel; a cache is
\* never cleared, and only an accepted publish changes one: subscribe,
\* unsubscribe, peekLatest, heartbeat and a rejected publish leave it alone.
C21_CacheHoldsLastAccepted ==
  /\ []CacheIsLastAccepted
  /\ [][lastSymbol' # lastSymbol =>
          \A ch \in AllChannels :
            lastSymbol'[ch] # lastSymbol[ch] =>
              /\ lastSymbol'[ch] # JsNull
              /\ res' = Accepted
              /\ published' = Append(published, <<ch, lastSymbol'[ch]>>)]_vars

\* Two publishes were accepted at different instants, the cache holds the
\* second, and a rejected publish has just been answered without touching it.
C21_Witness ==
  \E ch \in scope :
    /\ Len(published) = 2
    /\ published[1][2] # published[2][2]
    /\ lastSymbol[ch] = published[2][2]
    /\ res.status = 400

\* The step is a handler of channel c: a publish, a subscribe, a close, a
\* heartbeat or a transport failure of one of its connections.
ChannelStep(c) ==
  \/ \E b \in Bodies : Transmit(c, b)
  \/ Stream(c)
  \/ \E h \in Handles :
       /\ chanOf[h] = c
       /\ conn[h] = "open"
       /\ (Heartbeat(h) \/ Close(h) \/ Break(h))

\* The step leaves channel ch alone: its cache, its subscriber set, and
\* what its subscribers have been written.
ChannelUntouched(ch) ==
  /\ lastSymbol'[ch] = lastSymbol[ch]
  /\ clients'[ch] = clients[ch]
  /\ \A h \in clients[ch] : recv'[h] = recv[h] /\ pings'[h] = pings[h]

\* The step is a connect, a message or a disconnect in session s.
SessionStep(s) ==
  \/ \E role \in RoleParams, canal \in CanalParams :
       SessionOf(canal) = s /\ Connection(role, canal)
  \/ \E w \in Sockets :
       /\ wsRole[w].canal = s
       /\ \/ \E text \in WsTexts : Message(w, text)
          \/ Closing(w)
          \/ WsClose(w)

\* The step leaves session t alone: its two role slots, and what its
\* sockets have been sent.
SessionUntouched(t) ==
  /\ slots'[SlotOf(t, "spectateur")] = slots[SlotOf(t, "spectateur")]
  /\ slots'[SlotOf(t, "magicien")] = slots[SlotOf(t, "magicien")]
  /\ \A v \in Sockets : wsRole[v].canal = t => sent'[v] = sent[v]

\* C22: a publish, subscribe, unsubscribe, heartbeat or write failure on
\* one channel leaves every other channel's cache and subscriber set as
\* they were and writes nothing to the other channels' subscribers; a
\* connect, message or disconnect in one paired session leaves the other
\* session's role slots as they were and sends nothing to its sockets.
C22_Isolated ==
  [][/\ \A ch \in AllChannels :
          ~ChannelUntouched(ch) => \A c \in scope \ {ch} : ~ChannelStep(c)
     /\ \A t \in {"atelier", "draw"} :
          ~SessionUntouched(t) =>
            \A s \in {"atelier", "draw"} \ {t} : ~SessionStep(s)]_vars

\* A subscriber of one channel has been written nothing by the publish on
\* the other channel, whose own subscriber got the frame.
C22_Witness ==
  \E a \in scope, b \in scope, g \in Handles, h \in Handles :
    /\ a # b
    /\ Len(published) = 1 /\ published[1][1] = a
    /\ lastSymbol[a] # JsNull /\ lastSymbol[b] = JsNull
    /\ g \in clients[a] /\ Len(recv[g]) = 1
    /\ h \in clients[b] /\ joined[h] = 0 /\ recv[h] = <<>>
    /\ h \notin broken

\* The atelier session is paired, a draw magicien is connected, and only
\* the atelier magicien got the message of the atelier spectateur.
C22_SessionsWitness ==
  /\ Connected("atelierSpectateur") /\ Connected("atelierMagicien")
  /\ Connected("drawMagicien")
  /\ posted = 1
  /\ Contains(sent[slots["atelierMagicien"]], StrokeText)
  /\ sent[slots["drawMagicien"]] = <<MagicienReadyText>>

IsCatchUp(f) == f.via = "catchup"

\* The frames the stream handler itself wrote to h.
CatchUpFrames(h) == SelectSeq(recv[h], IsCatchUp)

\* The last publish on h's channel that was accepted before h subscribed.
LastBeforeJoin(h) ==
  LET on == {i \in 1..joined[h] : OnChannelOf(h, i)}
  IN  IF on = {} THEN 0 ELSE CHOOSE i \in on : \A k \in on : k <= i

\* C23: no subscriber receives the same published event twice: it gets at
\* most one catch-up frame, written first, for the last event published
\* before it subscribed, and its other frames are the events published
\* after it subscribed, one frame each, in publish order.
C23_NoEventTwice ==
  \A h \in Handles :
    conn[h] = "open" =>
      /\ Len(CatchUpFrames(h)) <= 1
      /\ CatchUpFrames(h) # <<>> =>
           /\ IsCatchUp(recv[h][1])
           /\ LastBeforeJoin(h) # 0
           /\ recv[h][1].payload = Stringify(published[LastBeforeJoin(h)][2])
      /\ IsPrefix(LiveFrames(h), PublishedSince(h))
      /\ recv[h] = CatchUpFrames(h) \o LiveFrames(h)

\* A subscriber joined after the first publish, was caught up with it, and
\* then received the second publish live, each once.
C23_Witness ==
  \E h \in Handles :
    /\ Subscribed(h) /\ joined[h] = 1 /\ Len(published) = 2
    /\ OnChannelOf(h, 1) /\ OnChannelOf(h, 2)
    /\ recv[h] = <<DataFrame(published[1][2], "catchup"),
                   DataFrame(published[2][2], "live")>>

\* w is the only open spectateur socket of its session: a message of that
\* session's spectateur role can only have come from w.
OnlySender(w) ==
  /\ readyState[w] = 1
  /\ wsRole[w].role = "spectateur"
  /\ \A v \in Sockets \ {w} :
       (wsRole[v].role = "spectateur" /\ wsRole[v].canal = wsRole[w].canal)
         => readyState[v] # 1

\* The slot of w's role holds a newer connection of that role.
SupersededByNewer(w) ==
  /\ Superseded(w)
  /\ slots[SlotOf(wsRole[w].canal, wsRole[w].role)] # Null

\* C24: at most one spectateur connection is relayed at a time: a message
\* of a spectateur socket that a newer spectateur connection has superseded
\* is neither forwarded to the magicien nor followed by a Pushover request.
C24_SupersededNotRelayed ==
  [][\A w \in Sockets, text \in WsTexts :
       (posted' # posted /\ SupersededByNewer(w) /\ OnlySender(w)
          /\ Message(w, text)) =>
         (sent' = sent /\ pushes' = pushes)]_vars

\* What the message listeners do: the well-formed message of any open
\* spectateur socket, superseded or not, is forwarded to the open magicien
\* of its session.
C24_SupersededStillRelayed ==
  [][\A w \in Sockets, text \in WsTexts :
       (posted' # posted /\ SupersededByNewer(w) /\ OnlySender(w)
          /\ ~Thrown(text) /\ Connected(SlotOf(wsRole[w].canal, "magicien"))
          /\ Message(w, text)) =>
         NewTexts(slots[SlotOf(wsRole[w].canal, "magicien")]) = <<text>>]_vars

\* The magicien has been forwarded the stroke of a superseded spectateur
\* while the newer spectateur, which holds the slot, was closing.
C24_RelayedWitness ==
  \E w \in Sockets :
    /\ SupersededByNewer(w) /\ OnlySender(w)
    /\ posted = 1
    /\ Connected(SlotOf(wsRole[w].canal, "magicien"))
    /\ Contains(sent[slots[SlotOf(wsRole[w].canal, "magicien")]], StrokeText)
====
